---- MODULE Spec2Model ----
(***************************************************************************)
(* Model of the gutsmail e-mail import pipeline: the retryWithBackoff      *)
(* wrapper and the batched POST /api/emails/import handler.                *)
(***************************************************************************)
EXTENDS Integers, Sequences, FiniteSets, TLC

VARIABLES
  rb,            \* the stand-alone retryWithBackoff call
  rbLog,         \* what its operation did, one entry per invocation
  run,           \* per import request: the locals of POST and its position
  mailbox,       \* per import request: what the mailbox fetch returns
  emails,        \* prisma.email: the set of rows
  senderProfile, \* prisma.senderProfile, by sender address
  emailInsight,  \* prisma.emailInsight: the row of each day
  archiveLog,    \* archive calls issued to the mailbox
  autoArchive,   \* process.env.AUTO_ARCHIVE_EMAILS === 'true'
  faultsLeft,    \* analysis calls that are still going to fail
  dbFailLeft,    \* persistence calls that are still going to fail
  gmailAccounts, \* prisma.gmailAccount: the listing of each active account
  fetchFailLeft, \* mailbox reads that are still going to fail
  today,         \* the calendar day, as new Date() reads it
  lastDay,       \* the day after which the clock is no longer followed
  del,           \* the bulk-delete request: the locals of its POST
  killsLeft,     \* terminations of the host process still to come
  enr            \* one call of an enrichment function and the row written from it

retryVars == <<rb, rbLog>>

dbVars == <<emails, senderProfile, emailInsight>>

envVars == <<mailbox, autoArchive, gmailAccounts, today, lastDay>>

budgetVars == <<faultsLeft, dbFailLeft, fetchFailLeft, killsLeft>>

\* the budgets that neither an analysis nor a persistence failure consumes
otherBudgets == <<fetchFailLeft, killsLeft>>

importVars ==
  <<run, mailbox, emails, senderProfile, emailInsight, archiveLog,
    autoArchive, faultsLeft, dbFailLeft, gmailAccounts, fetchFailLeft,
    today, lastDay, del, killsLeft>>

vars ==
  <<rb, rbLog, run, mailbox, emails, senderProfile, emailInsight,
    archiveLog, autoArchive, faultsLeft, dbFailLeft, gmailAccounts,
    fetchFailLeft, today, lastDay, del, killsLeft, enr>>

\* ------------------------------------------------------------------------
\* Bounds of the model
\* ------------------------------------------------------------------------
MaxAttemptsBound == 5
RaceFetch == 1
MaxFetch == 2
MaxLong == 9
MaxFaults == 5
FewFaults == 1
FewDbFails == 1
FewFetchFails == 1
FewKills == 1
MaxDay == 2

\* ------------------------------------------------------------------------
\* Program constants
\* ------------------------------------------------------------------------
DefaultMaxRetries == 5
DefaultBaseDelay == 1000
JitterRange == 1000

\* ------------------------------------------------------------------------
\* Values and errors.  A message is a sequence of words; `at` is the number
\* of the invocation that produced the value or raised the error, so that
\* "the same error value" and "the attempt-k result" can be told apart.
\* ------------------------------------------------------------------------
NoResult == [kind |-> "none", message |-> <<>>, at |-> 0]

Value(at) == [kind |-> "value", message |-> <<>>, at |-> at]

Err(msg, at) == [kind |-> "error", message |-> msg, at |-> at]

\* messages an operation may fail with: two that carry a rate-limit marker,
\* two that do not, and an error without a message
ErrMessages ==
  { <<"429", "Too", "Many", "Requests">>,
    <<"quota:", "Resource", "exhausted">>,
    <<"Resource", "temporarily", "exhausted">>,
    <<"fetch", "failed">>,
    <<>> }

\* Math.random() * 1000 lies in [0, 1000)
JitterSet == {0, 500, JitterRange - 1}

BaseDelays == {DefaultBaseDelay, 250}

\* what the analysis call of the import handler fails with: one rate-limit
\* answer and one other failure; the jitter of its backoff
AnalysisErrors ==
  { <<"429", "Too", "Many", "Requests">>, <<"fetch", "failed">> }

AnalysisJitter == {500}

RECURSIVE Pow2(_)
Pow2(n) == IF n = 0 THEN 1 ELSE 2 * Pow2(n - 1)

\* String.prototype.includes on the word sequence
Includes(msg, marker) ==
  \E i \in 1..(Len(msg) - Len(marker) + 1) :
     SubSeq(msg, i, i + Len(marker) - 1) = marker

is429_always(error) ==
  TRUE

is429(error) ==
  \/ Includes(error.message, <<"429">>)
  \/ Includes(error.message, <<"Resource", "exhausted">>)

MaxRetriesExceeded == Err(<<"Max", "retries", "exceeded">>, 0)

\* ------------------------------------------------------------------------
\* retryWithBackoff as a state machine over a record:
\*   pc = "call"     fn() has been invoked and is in flight
\*   pc = "sleep"    awaiting sleep(totalDelay)
\*   pc = "returned" resolved with result
\*   pc = "thrown"   rejected with result
\* ------------------------------------------------------------------------
\* entry of the for loop: the first invocation, or the throw after the loop
retryEnter(rt) ==
  IF rt.attempt < rt.maxRetries
    THEN [rt EXCEPT !.pc = "call", !.calls = @ + 1]
    ELSE [rt EXCEPT !.pc = "thrown", !.result = MaxRetriesExceeded]

retryWithBackoff(maxRetries, baseDelay) ==
  retryEnter([maxRetries |-> maxRetries, baseDelay |-> baseDelay,
              attempt |-> 0, pc |-> "idle", calls |-> 0,
              sleeps |-> <<>>, result |-> NoResult])

\* fn() resolved: return await fn()
retryResolved(rt, value) ==
  [rt EXCEPT !.pc = "returned", !.result = value]

isLastAttempt_offByOne(rt) ==
  rt.attempt = rt.maxRetries

isLastAttempt(rt) ==
  rt.attempt = rt.maxRetries - 1

backoffDelay_linear(rt) ==
  rt.baseDelay * (rt.attempt + 1)

backoffDelay(rt) ==
  rt.baseDelay * Pow2(rt.attempt)

\* fn() rejected: the catch block
retryRejected(rt, error, jitter) ==
  IF ~is429(error) \/ isLastAttempt(rt)
    THEN [rt EXCEPT !.pc = "thrown", !.result = error]
    ELSE [rt EXCEPT !.pc = "sleep",
                    !.sleeps = Append(@, backoffDelay(rt) + jitter)]

retryWake_noIncrement(rt) ==
  retryEnter(rt)

\* sleep elapsed: attempt++ and the loop condition
retryWake(rt) ==
  retryEnter([rt EXCEPT !.attempt = @ + 1])

\* ------------------------------------------------------------------------
\* The import handler (POST): data
\* ------------------------------------------------------------------------
BATCH_SIZE == 4

Runs == {1, 2}

Min(a, b) == IF a < b THEN a ELSE b

RECURSIVE Flatten(_)
Flatten(ss) == IF ss = <<>> THEN <<>> ELSE Head(ss) \o Flatten(Tail(ss))

\* messages of the mailbox: source identifier, sender address, subject
MsgA == [id |-> 1, from |-> "ann@x", subject |-> "A"]
MsgB == [id |-> 2, from |-> "ann@x", subject |-> "B"]
MsgC == [id |-> 3, from |-> "bob@x", subject |-> "C"]

Senders == {"ann@x", "bob@x"}

\* a fetched message keeps its place in allGmailMessages
fetchedItem(m, pos) ==
  [id |-> m.id, from |-> m.from, subject |-> m.subject, pos |-> pos]

\* a row of prisma.email: `by` is the request and new-item index that
\* created it (<<0, 0>> for a row older than every request), `analysis` the
\* number of the analysis invocation whose result it stores
emailRow(m, by, analysis) ==
  [messageId |-> m.id, from |-> m.from, subject |-> m.subject,
   by |-> by, analysis |-> analysis, isDeleted |-> FALSE]

\* the uniqueness constraint on the source identifier of prisma.email:
\* an insert of an identifier that is already stored is rejected
messageIdTaken_unchecked(rows, messageId) ==
  FALSE

messageIdTaken(rows, messageId) ==
  \E row \in rows : row.messageId = messageId

existing_never(rows, messageId) ==
  FALSE

\* prisma.email.findUnique({ where: { messageId } })
existing(rows, messageId) ==
  \E row \in rows : row.messageId = messageId

NoProfile == [present |-> FALSE, totalEmails |-> 0]

NoInsight ==
  [present |-> FALSE, emailsProcessed |-> 0, emailsArchived |-> 0,
   emailsDeleted |-> 0, timeSavedMins |-> 0]

Days == 1..MaxDay

\* listed: what the mailbox listed; lostAt: the listed places whose message
\* could not be fetched; accountsDown: the accounts whose fetch failed;
\* stoppedAt: where the request was when it failed or was terminated;
\* statsDay: the day whose record the request incremented, 0 for none
offRun ==
  [pc |-> "off", fetched |-> <<>>, fidx |-> 0, imported |-> 0,
   skipped |-> 0, errors |-> <<>>, newEmails |-> <<>>, i |-> 0,
   items |-> <<>>, sched |-> <<>>, pauses |-> 0, snap |-> {},
   dedupSkipped |-> {}, listed |-> <<>>, lostAt |-> {},
   accountsDown |-> {}, stoppedAt |-> "none", statsDay |-> 0]

\* the bulk-delete request before it is received
offDelete ==
  [pc |-> "off", targets |-> <<>>, idx |-> 0, deleted |-> 0,
   errors |-> <<>>, statsDay |-> 0]

idleRun == [offRun EXCEPT !.pc = "idle"]

NoRetry ==
  [maxRetries |-> DefaultMaxRetries, baseDelay |-> DefaultBaseDelay,
   attempt |-> 0, pc |-> "idle", calls |-> 0, sleeps |-> <<>>,
   result |-> NoResult]

\* rejected: the item's insert was refused by the uniqueness constraint
waitingItem ==
  [st |-> "waiting", rt |-> NoRetry, outcome |-> "none", rejected |-> FALSE]

\* one call: the function, its position, its argument and result, and the
\* fields of the row written from the result
NoCall == [fn |-> "none", pc |-> "off", input |-> <<>>, out |-> <<>>, row |-> <<>>]

\* ------------------------------------------------------------------------
\* Stand-alone executor: one retryWithBackoff call with arbitrary arguments
\* ------------------------------------------------------------------------
InitRetry ==
  /\ \E n \in (-1)..MaxAttemptsBound, b \in BaseDelays :
        rb = retryWithBackoff(n, b)
  /\ rbLog = <<>>
  /\ run = [r \in Runs |-> offRun]
  /\ mailbox = [r \in Runs |-> <<>>]
  /\ emails = {}
  /\ senderProfile = [a \in Senders |-> NoProfile]
  /\ emailInsight = [d \in Days |-> NoInsight]
  /\ archiveLog = <<>>
  /\ autoArchive = FALSE
  /\ faultsLeft = 0
  /\ dbFailLeft = 0
  /\ gmailAccounts = <<>>
  /\ fetchFailLeft = 0
  /\ today = 1
  /\ lastDay = 1
  /\ del = offDelete
  /\ killsLeft = 0
  /\ enr = NoCall

OpSucceeds ==
  /\ rb.pc = "call"
  /\ rb' = retryResolved(rb, Value(rb.calls))
  /\ rbLog' = Append(rbLog, Value(rb.calls))
  /\ UNCHANGED <<importVars, enr>>

OpFails ==
  /\ rb.pc = "call"
  /\ \E m \in ErrMessages, j \in JitterSet :
        /\ rb' = retryRejected(rb, Err(m, rb.calls), j)
        /\ rbLog' = Append(rbLog, Err(m, rb.calls))
  /\ UNCHANGED <<importVars, enr>>

SleepElapses ==
  /\ rb.pc = "sleep"
  /\ rb' = retryWake(rb)
  /\ UNCHANGED rbLog
  /\ UNCHANGED <<importVars, enr>>

NextRetry == OpSucceeds \/ OpFails \/ SleepElapses

SpecRetry == InitRetry /\ [][NextRetry]_vars

\* ------------------------------------------------------------------------
\* lib/gemini and lib/gmail: the enrichment functions, and the row the
\* one-by-one import route writes from their results
\* ------------------------------------------------------------------------
MaxScoreText == 3

\* the characters a priority response is made of
ScoreChars == {" ", "-", "+", "0", "1", "5", "9", ".", "x"}

DigitChars == {"0", "1", "5", "9"}

digitValue(c) ==
  CASE c = "0" -> 0 [] c = "1" -> 1 [] c = "5" -> 5 [] c = "9" -> 9

Texts(chars, n) == UNION {[1..k -> chars] : k \in 0..n}

Max(a, b) == IF a > b THEN a ELSE b

NaN == [nan |-> TRUE, n |-> 0]

Number(n) == [nan |-> FALSE, n |-> n]

RECURSIVE trimStart(_)
trimStart(s) ==
  IF s # <<>> /\ Head(s) = " " THEN trimStart(Tail(s)) ELSE s

RECURSIVE trimEnd(_)
trimEnd(s) ==
  IF s # <<>> /\ s[Len(s)] = " " THEN trimEnd(SubSeq(s, 1, Len(s) - 1))
  ELSE s

trim(s) == trimEnd(trimStart(s))

\* the longest prefix of s made of digits
RECURSIVE digitsPrefix(_)
digitsPrefix(s) ==
  IF s # <<>> /\ Head(s) \in DigitChars
  THEN <<Head(s)>> \o digitsPrefix(Tail(s))
  ELSE <<>>

RECURSIVE digitsValue(_, _, _)
digitsValue(ds, radix, acc) ==
  IF ds = <<>> THEN acc
  ELSE digitsValue(Tail(ds), radix, acc * radix + digitValue(Head(ds)))

\* parseInt(string) without a radix: leading white space, a sign, an
\* optional 0x prefix, then the longest run of digits; NaN without a digit
parseInt(s) ==
  LET t == trimStart(s)
      signed == t # <<>> /\ Head(t) \in {"+", "-"}
      u == IF signed THEN Tail(t) ELSE t
      hex == Len(u) >= 2 /\ u[1] = "0" /\ u[2] = "x"
      ds == digitsPrefix(IF hex THEN Tail(Tail(u)) ELSE u)
      magnitude == digitsValue(ds, IF hex THEN 16 ELSE 10, 0)
  IN IF ds = <<>> THEN NaN
     ELSE Number(IF signed /\ Head(t) = "-" THEN 0 - magnitude
                 ELSE magnitude)

\* what model.generateContent did: it failed, or it answered with a text
ScoreResponses ==
  {[failed |-> TRUE, text |-> <<>>]}
    \cup {[failed |-> FALSE, text |-> t] : t \in Texts(ScoreChars, MaxScoreText)}

calculatePriorityScore_unclamped(response) ==
  IF response.failed THEN 50
  ELSE LET score == parseInt(trim(response.text))
       IN IF score.nan THEN 50 ELSE score.n

calculatePriorityScore(response) ==
  IF response.failed THEN 50
  ELSE LET score == parseInt(trim(response.text))
       IN IF score.nan THEN 50 ELSE Min(100, Max(0, score.n))

SetMin(S) == CHOOSE x \in S : \A y \in S : x <= y

SetMax(S) == CHOOSE x \in S : \A y \in S : y <= x

MaxInfoText == 5

JsonMembers == {"hasImportant:true", "flags:[tracking]"}

\* the pieces a tag-detection response is made of
InfoTokens == {"{", "}", ",", "text"} \cup JsonMembers

InfoResponses ==
  {[failed |-> TRUE, text |-> <<>>]}
    \cup {[failed |-> FALSE, text |-> t] : t \in Texts(InfoTokens, MaxInfoText)}

\* response.match(/\{[\s\S]*\}/): from the first "{" to the last "}" after
\* it; the empty sequence stands for null
jsonMatch(text) ==
  LET opens == {i \in 1..Len(text) : text[i] = "{"}
  IN IF opens = {} THEN <<>>
     ELSE LET closes == {j \in (SetMin(opens) + 1)..Len(text) : text[j] = "}"}
          IN IF closes = {} THEN <<>>
             ELSE SubSeq(text, SetMin(opens), SetMax(closes))

\* JSON.parse of the matched text: members separated by commas between
\* the braces, a SyntaxError (ok = FALSE) for anything else
jsonParse(m) ==
  LET inner == SubSeq(m, 2, Len(m) - 1)
      syntaxOk ==
        \/ inner = <<>>
        \/ /\ Len(inner) % 2 = 1
           /\ \A p \in 1..Len(inner) :
                IF p % 2 = 1 THEN inner[p] \in JsonMembers ELSE inner[p] = ","
  IN [ok |-> syntaxOk,
      members |-> IF syntaxOk THEN {inner[p] : p \in 1..Len(inner)} \ {","}
                  ELSE {}]

NoImportantInfo == [raised |-> FALSE, hasImportant |-> FALSE, flags |-> <<>>]

\* parsed.hasImportant || false, parsed.flags || []
importantInfoOf(parsed) ==
  [raised |-> FALSE,
   hasImportant |-> "hasImportant:true" \in parsed.members,
   flags |-> IF "flags:[tracking]" \in parsed.members THEN <<"tracking">>
             ELSE <<>>]

detectImportantInfo_uncaught(response) ==
  IF response.failed THEN NoImportantInfo
  ELSE LET jm == jsonMatch(trim(response.text))
       IN IF jm = <<>> THEN NoImportantInfo
          ELSE IF jsonParse(jm).ok THEN importantInfoOf(jsonParse(jm))
          ELSE [NoImportantInfo EXCEPT !.raised = TRUE]

detectImportantInfo(response) ==
  IF response.failed THEN NoImportantInfo
  ELSE LET jm == jsonMatch(trim(response.text))
       IN IF jm = <<>> THEN NoImportantInfo
          ELSE IF jsonParse(jm).ok THEN importantInfoOf(jsonParse(jm))
          ELSE NoImportantInfo

Null == [null |-> TRUE, text |-> <<>>]

Text(t) == [null |-> FALSE, text |-> t]

RECURSIVE quotedList(_)
quotedList(items) ==
  IF items = <<>> THEN <<>>
  ELSE <<"\"", Head(items), "\"">>
         \o (IF Len(items) = 1 THEN <<>> ELSE <<",">> \o quotedList(Tail(items)))

\* JSON.stringify of a list of strings
stringify(items) == <<"[">> \o quotedList(items) \o <<"]">>

\* flags.length > 0 ? JSON.stringify(flags) : null
importantInfoFlags(flags) ==
  IF Len(flags) > 0 THEN Text(stringify(flags)) ELSE Null

MaxChunks == 2
MaxElems == 2

AnchorOpen == "<a href=\""
AnchorQuote == "\">"
AnchorEnd == "</a>"

\* the pieces of text that end a URL: /[\s<>"]/
IsDelimiter(tok) ==
  tok \in {" ", AnchorOpen, AnchorQuote, AnchorEnd, "<b>", "</b>"}

Scheme == "http://"

urlPatterns == <<"unsubscribe", "optout", "opt-out", "preferences">>

\* a piece of plain text, the link a reader sees in it, and the keywords
\* that link carries
Chunk(raw, link, kws) ==
  [raw |-> raw, link |-> link, kws |-> kws, anchor |-> FALSE, url |-> <<>>,
   keyword |-> FALSE]

BodyChunks ==
  { Chunk(<<Scheme, "h", "unsubscribe">>, <<Scheme, "h", "unsubscribe">>,
          {"unsubscribe"}),
    Chunk(<<Scheme, "h", "optout", ")">>, <<Scheme, "h", "optout">>,
          {"optout"}),
    Chunk(<<Scheme, "h", "opt-out">>, <<Scheme, "h", "opt-out">>,
          {"opt-out"}),
    Chunk(<<Scheme, "h", "preferences", "]", ")">>,
          <<Scheme, "h", "preferences">>, {"preferences"}),
    Chunk(<<Scheme, "h", "preferences", "Unsubscribe">>,
          <<Scheme, "h", "preferences", "Unsubscribe">>,
          {"unsubscribe", "preferences"}),
    Chunk(<<Scheme, "h">>, <<>>, {}),
    Chunk(<<"unsubscribe">>, <<>>, {}),
    Chunk(<<Scheme, "unsubscribe">>, <<>>, {}) }

\* an href attribute as written, the address it denotes, and the link a
\* scan of the written text finds in it
Hrefs ==
  { [raw |-> <<Scheme, "h">>, url |-> <<Scheme, "h">>, link |-> <<>>,
     kws |-> {}],
    [raw |-> <<Scheme, "h", "&amp;", "optout">>,
     url |-> <<Scheme, "h", "&", "optout">>,
     link |-> <<Scheme, "h", "&amp;", "optout">>, kws |-> {"optout"}],
    [raw |-> <<"mailto:", "h", "unsubscribe">>,
     url |-> <<"mailto:", "h", "unsubscribe">>, link |-> <<>>, kws |-> {}],
    [raw |-> <<" ", Scheme, "h", "preferences", " ">>,
     url |-> <<Scheme, "h", "preferences">>,
     link |-> <<Scheme, "h", "preferences">>, kws |-> {"preferences"}] }

\* a link text as written, and whether it reads as an unsubscribe link
Labels ==
  { [raw |-> <<"here">>, keyword |-> FALSE],
    [raw |-> <<"Unsubscribe">>, keyword |-> TRUE],
    [raw |-> <<"<b>", "opt out", "</b>">>, keyword |-> TRUE] }

Anchor(href, label) ==
  [raw |-> <<AnchorOpen>> \o href.raw \o <<AnchorQuote>> \o label.raw
             \o <<AnchorEnd>>,
   link |-> href.link, kws |-> href.kws, anchor |-> TRUE, url |-> href.url,
   keyword |-> label.keyword]

HtmlElements ==
  {Anchor(h, l) : h \in Hrefs, l \in Labels}
    \cup {c \in BodyChunks : c.kws \in {{"unsubscribe"}, {"optout"}, {}}}

\* the text of a sequence of pieces, separated by white space
RECURSIVE rawText(_)
rawText(parts) ==
  IF parts = <<>> THEN <<>>
  ELSE IF Len(parts) = 1 THEN Head(parts).raw
  ELSE Head(parts).raw \o <<" ">> \o rawText(Tail(parts))

absent == [given |-> FALSE, text |-> <<>>]

\* the arguments of a call, with the pieces they were written from
LinkInputs ==
  {[body |-> rawText(cs), htmlBody |-> absent, chunks |-> cs, elems |-> <<>>] :
     cs \in Texts(BodyChunks, MaxChunks)}
    \cup
  {[body |-> rawText(cs), htmlBody |-> [given |-> TRUE, text |-> rawText(es)],
    chunks |-> cs, elems |-> es] :
     cs \in {c \in Texts(BodyChunks, 1) :
               \A i \in 1..Len(c) : c[i].kws = {"unsubscribe"}},
     es \in Texts(HtmlElements, MaxElems)}

toLowerCase(tok) == IF tok = "Unsubscribe" THEN "unsubscribe" ELSE tok

\* the words the link text of an anchor is searched for
LinkKeywords ==
  {"unsubscribe", "opt-out", "opt out", "optout", "preferences",
   "manage preferences", "email preferences", "subscription",
   "manage subscription"}

\* htmlBody is used when it is neither undefined nor the empty string
truthy(htmlBody) == htmlBody.given /\ htmlBody.text # <<>>

scannedText_plainOnly(body, htmlBody) == body

\* const text = htmlBody || body
scannedText(body, htmlBody) ==
  IF truthy(htmlBody) THEN htmlBody.text ELSE body

\* the matches of anchorPattern from position `from` on, in order
RECURSIVE anchorMatches(_, _)
anchorMatches(text, from) ==
  LET opens == {i \in from..Len(text) : text[i] = AnchorOpen}
  IN IF opens = {} THEN <<>>
     ELSE
       LET i == SetMin(opens)
           quotes == {j \in (i + 1)..Len(text) : text[j] = AnchorQuote}
           j == IF quotes = {} THEN 0 ELSE SetMin(quotes)
           ends == {e \in (j + 1)..Len(text) : text[e] = AnchorEnd}
       IN IF quotes = {} \/ ends = {} THEN <<>>
          ELSE IF j = i + 1 THEN anchorMatches(text, i + 1)
          ELSE <<[href |-> SubSeq(text, i + 1, j - 1),
                  linkText |-> SubSeq(text, j + 1, SetMin(ends) - 1)]>>
                 \o anchorMatches(text, SetMin(ends) + 1)

\* match[2].replace(/<[^>]*>/g, '').toLowerCase()
RECURSIVE linkTextOf(_)
linkTextOf(toks) ==
  IF toks = <<>> THEN <<>>
  ELSE IF Head(toks) \in {"<b>", "</b>"} THEN linkTextOf(Tail(toks))
  ELSE <<toLowerCase(Head(toks))>> \o linkTextOf(Tail(toks))

RECURSIVE decodeAmp(_)
decodeAmp(toks) ==
  IF toks = <<>> THEN <<>>
  ELSE <<IF Head(toks) = "&amp;" THEN "&" ELSE Head(toks)>>
         \o decodeAmp(Tail(toks))

\* href.replace(/&amp;/g, '&').trim()
cleanHref(href) == trim(decodeAmp(href))

NoLink == [null |-> TRUE, url |-> <<>>]

Link(u) == [null |-> FALSE, url |-> u]

\* Strategy 1: the first anchor whose text has a keyword and whose cleaned
\* href starts with 'http'
RECURSIVE anchorLink(_)
anchorLink(matches) ==
  IF matches = <<>> THEN NoLink
  ELSE
    LET linkText == linkTextOf(Head(matches).linkText)
        href == cleanHref(Head(matches).href)
    IN IF /\ \E p \in 1..Len(linkText) : linkText[p] \in LinkKeywords
          /\ href # <<>>
          /\ Head(href) = Scheme
       THEN Link(href)
       ELSE anchorLink(Tail(matches))

\* where the run of URL characters that starts at i ends
RECURSIVE runEnd(_, _)
runEnd(text, i) ==
  IF i < Len(text) /\ ~IsDelimiter(text[i + 1]) THEN runEnd(text, i + 1)
  ELSE i

\* text.match(/https?:\/\/[^\s<>"]+KEYWORD[^\s<>"]*/gi)[0], the empty
\* sequence when there is no match
patternMatch(text, kw) ==
  LET starts ==
        {i \in 1..Len(text) :
           /\ text[i] = Scheme
           /\ \E p \in (i + 2)..runEnd(text, i) : toLowerCase(text[p]) = kw}
  IN IF starts = {} THEN <<>>
     ELSE SubSeq(text, SetMin(starts), runEnd(text, SetMin(starts)))

\* replace(/[)>\]]+$/, '')
RECURSIVE stripTrailing(_)
stripTrailing(m) ==
  IF m # <<>> /\ m[Len(m)] \in {")", ">", "]"}
  THEN stripTrailing(SubSeq(m, 1, Len(m) - 1))
  ELSE m

\* Strategy 2: the patterns in their order, the first match of the first
\* pattern that matches
RECURSIVE patternLink(_, _)
patternLink(text, patterns) ==
  IF patterns = <<>> THEN NoLink
  ELSE IF patternMatch(text, Head(patterns)) # <<>>
  THEN Link(stripTrailing(patternMatch(text, Head(patterns))))
  ELSE patternLink(text, Tail(patterns))

extractUnsubscribeLink(body, htmlBody) ==
  LET found == IF truthy(htmlBody)
               THEN anchorLink(anchorMatches(htmlBody.text, 1))
               ELSE NoLink
  IN IF ~found.null THEN found
     ELSE patternLink(scannedText(body, htmlBody), urlPatterns)

enrichCall(fn, input) == [NoCall EXCEPT !.fn = fn, !.pc = "call", !.input = input]

InitEnrich ==
  /\ \/ \E i \in ScoreResponses : enr = enrichCall("calculatePriorityScore", i)
     \/ \E i \in InfoResponses : enr = enrichCall("detectImportantInfo", i)
     \/ \E i \in LinkInputs : enr = enrichCall("extractUnsubscribeLink", i)
  /\ rb = NoRetry
  /\ rbLog = <<>>
  /\ run = [r \in Runs |-> offRun]
  /\ mailbox = [r \in Runs |-> <<>>]
  /\ emails = {}
  /\ senderProfile = [a \in Senders |-> NoProfile]
  /\ emailInsight = [d \in Days |-> NoInsight]
  /\ archiveLog = <<>>
  /\ autoArchive = FALSE
  /\ faultsLeft = 0
  /\ dbFailLeft = 0
  /\ gmailAccounts = <<>>
  /\ fetchFailLeft = 0
  /\ today = 1
  /\ lastDay = 1
  /\ del = offDelete
  /\ killsLeft = 0

ScoreReturns ==
  /\ enr.fn = "calculatePriorityScore"
  /\ enr.pc = "call"
  /\ enr' = [enr EXCEPT !.pc = "returned",
                        !.out = calculatePriorityScore(enr.input)]
  /\ UNCHANGED <<retryVars, importVars>>

\* an exception of the function leaves the item's try block
InfoReturns ==
  /\ enr.fn = "detectImportantInfo"
  /\ enr.pc = "call"
  /\ LET info == detectImportantInfo(enr.input)
     IN enr' = [enr EXCEPT !.pc = IF info.raised THEN "raised" ELSE "returned",
                           !.out = info]
  /\ UNCHANGED <<retryVars, importVars>>

LinkReturns ==
  /\ enr.fn = "extractUnsubscribeLink"
  /\ enr.pc = "call"
  /\ enr' = [enr EXCEPT !.pc = "returned",
                        !.out = extractUnsubscribeLink(enr.input.body,
                                                       enr.input.htmlBody)]
  /\ UNCHANGED <<retryVars, importVars>>

\* the fields of prisma.email.create that come from the call
enrichedRow(e) ==
  CASE e.fn = "calculatePriorityScore" -> [aiPriorityScore |-> e.out]
    [] e.fn = "detectImportantInfo" ->
         [hasImportantInfo |-> e.out.hasImportant,
          importantInfoFlags |-> importantInfoFlags(e.out.flags)]
    [] e.fn = "extractUnsubscribeLink" -> [unsubscribeLink |-> e.out]

EnrichedCreate ==
  /\ enr.pc = "returned"
  /\ enr' = [enr EXCEPT !.pc = "created", !.row = enrichedRow(enr)]
  /\ UNCHANGED <<retryVars, importVars>>

NextEnrich == ScoreReturns \/ InfoReturns \/ LinkReturns \/ EnrichedCreate

SpecEnrich == InitEnrich /\ [][NextEnrich]_vars

\* ------------------------------------------------------------------------
\* The import handler (POST): control flow between two awaits
\* ------------------------------------------------------------------------
\* indices (into newEmails) of the batch that starts at offset rs.i
batchOf_oversized(rs) ==
  (rs.i + 1)..Min(rs.i + BATCH_SIZE + 1, Len(rs.newEmails))

batchOf(rs) ==
  (rs.i + 1)..Min(rs.i + BATCH_SIZE, Len(rs.newEmails))

\* batch.map(async (item) => ...): every item of the batch runs up to its
\* first await, the analysis call inside retryWithBackoff
startBatch(rs) ==
  [rs EXCEPT
     !.pc = "batch",
     !.sched = Append(@, [k \in 1..Cardinality(batchOf(rs)) |-> rs.i + k]),
     !.items = [k \in 1..Len(rs.newEmails) |->
                  IF k \in batchOf(rs)
                    THEN [st |-> "analyze",
                          rt |-> retryWithBackoff(DefaultMaxRetries,
                                                  DefaultBaseDelay),
                          outcome |-> "none", rejected |-> FALSE]
                    ELSE @[k]]]

\* for (let i = 0; i < newEmails.length; i += BATCH_SIZE): the loop test;
\* after the loop the daily-insight upsert is issued
batchLoop(rs) ==
  IF rs.i < Len(rs.newEmails)
    THEN startBatch(rs)
    ELSE [rs EXCEPT !.pc = "stats"]

\* end of the dedup loop
afterDedup(rs) ==
  batchLoop([rs EXCEPT !.i = 0,
                       !.items = [k \in 1..Len(rs.newEmails) |-> waitingItem]])

\* the dedup loop: its test, and the next findUnique
dedupLoop(rs) ==
  IF rs.fidx < Len(rs.fetched)
    THEN [rs EXCEPT !.pc = "dedup"]
    ELSE afterDedup(rs)

dedupStep_allNew(rs, item, found) ==
  dedupLoop([rs EXCEPT !.newEmails = Append(@, item), !.fidx = @ + 1])

dedupStep_newestFirst(rs, item, found) ==
  dedupLoop(
    IF found
      THEN [rs EXCEPT !.skipped = @ + 1, !.fidx = @ + 1,
                      !.dedupSkipped = @ \cup {item.pos}]
      ELSE [rs EXCEPT !.newEmails = <<item>> \o @, !.fidx = @ + 1])

\* one iteration of the dedup loop, findUnique having answered
dedupStep(rs, item, found) ==
  dedupLoop(
    IF found
      THEN [rs EXCEPT !.skipped = @ + 1, !.fidx = @ + 1,
                      !.dedupSkipped = @ \cup {item.pos}]
      ELSE [rs EXCEPT !.newEmails = Append(@, item), !.fidx = @ + 1])

allSettled_any(rs) ==
  \E k \in batchOf(rs) : rs.items[k].st = "settled"

\* Promise.all(batchPromises) resolves
allSettled(rs) ==
  \A k \in batchOf(rs) : rs.items[k].st = "settled"

countOutcome_wholeList(rs, o) ==
  Cardinality({k \in 1..Len(rs.items) : rs.items[k].outcome = o})

countOutcome(rs, o) ==
  Cardinality({k \in batchOf(rs) : rs.items[k].outcome = o})

hasMoreBatches_inclusive(rs) ==
  rs.i + BATCH_SIZE <= Len(rs.newEmails)

hasMoreBatches(rs) ==
  rs.i + BATCH_SIZE < Len(rs.newEmails)

\* after await Promise.all: the counting, then the pause or the next step
afterBatch(rs) ==
  LET counted == [rs EXCEPT !.imported = @ + countOutcome(rs, "imported"),
                            !.skipped = @ + countOutcome(rs, "skipped")]
  IN IF hasMoreBatches(rs)
       THEN [counted EXCEPT !.pc = "pause"]
       ELSE batchLoop([counted EXCEPT !.i = @ + BATCH_SIZE])

settle_never(rs) == rs

\* an item's promise settled; the handler continues once all have
settle(rs) ==
  IF rs.pc = "batch" /\ allSettled(rs) THEN afterBatch(rs) ELSE rs

errorEntry(item) == <<"Failed to process email: ", item.subject>>

itemCatch_rethrow(rs, k) ==
  [rs EXCEPT !.pc = "failed"]

itemCatch_silent(rs, k) ==
  [rs EXCEPT !.items[k].st = "settled",
             !.items[k].outcome = "failed"]

\* the item's catch block
itemCatch(rs, k) ==
  [rs EXCEPT !.errors = Append(@, errorEntry(rs.newEmails[k])),
             !.items[k].st = "settled",
             !.items[k].outcome = "failed"]

itemDone(rs, k, outcome) ==
  [rs EXCEPT !.items[k].st = "settled", !.items[k].outcome = outcome]

afterArchive_escalate(rs, k, ok) ==
  IF ok THEN itemDone(rs, k, "imported") ELSE itemCatch(rs, k)

\* the archive call answered, or its failure was caught and logged
afterArchive(rs, k, ok) ==
  itemDone(rs, k, "imported")

afterSenderUpsert_always(rs, k, auto) ==
  [rs EXCEPT !.items[k].st = "archive"]

\* if (process.env.AUTO_ARCHIVE_EMAILS === 'true') the archive call is
\* issued; otherwise the item is done
afterSenderUpsert(rs, k, auto) ==
  IF auto THEN [rs EXCEPT !.items[k].st = "archive"]
          ELSE settle(itemDone(rs, k, "imported"))

\* after retryWithBackoff moved: resolved, rejected, or still retrying
afterAnalysis(rs, k, rt) ==
  LET rs1 == [rs EXCEPT !.items[k].rt = rt]
  IN CASE rt.pc = "returned" -> [rs1 EXCEPT !.items[k].st = "find"]
       [] rt.pc = "thrown" -> itemCatch(rs1, k)
       [] OTHER -> rs1

\* senderProfile.upsert: create with totalEmails 1, or increment by 1
senderUpsert_overwrite(p) ==
  [present |-> TRUE, totalEmails |-> 1]

senderUpsert(p) ==
  IF p.present
    THEN [p EXCEPT !.totalEmails = @ + 1]
    ELSE [present |-> TRUE, totalEmails |-> 1]

insightUpsert_oneMinute(ins, imported) ==
  IF ins.present
    THEN [ins EXCEPT !.emailsProcessed = @ + imported,
                     !.emailsArchived = @ + imported,
                     !.timeSavedMins = @ + imported]
    ELSE [present |-> TRUE, emailsProcessed |-> imported,
          emailsArchived |-> imported, emailsDeleted |-> 0,
          timeSavedMins |-> imported]

insightUpsert_createOnly(ins, imported) ==
  [present |-> TRUE, emailsProcessed |-> imported,
   emailsArchived |-> imported, emailsDeleted |-> 0,
   timeSavedMins |-> imported * 2]

\* emailInsight.upsert of the import
insightUpsert(ins, imported) ==
  IF ins.present
    THEN [ins EXCEPT !.emailsProcessed = @ + imported,
                     !.emailsArchived = @ + imported,
                     !.timeSavedMins = @ + imported * 2]
    ELSE [present |-> TRUE, emailsProcessed |-> imported,
          emailsArchived |-> imported, emailsDeleted |-> 0,
          timeSavedMins |-> imported * 2]

deleteInsightUpsert_replace(ins, deleted) ==
  [present |-> TRUE, emailsProcessed |-> 0, emailsArchived |-> 0,
   emailsDeleted |-> deleted, timeSavedMins |-> deleted]

\* emailInsight.upsert of the bulk delete; the counters its create leaves
\* out start at zero
deleteInsightUpsert(ins, deleted) ==
  IF ins.present
    THEN [ins EXCEPT !.emailsDeleted = @ + deleted,
                     !.timeSavedMins = @ + deleted]
    ELSE [present |-> TRUE, emailsProcessed |-> 0, emailsArchived |-> 0,
          emailsDeleted |-> deleted, timeSavedMins |-> deleted]

\* email.update({ data: { isDeleted: true } }) of one row
softDelete(rows, messageId) ==
  {IF row.messageId = messageId THEN [row EXCEPT !.isDeleted = TRUE]
                                ELSE row : row \in rows}

\* the listing of the accounts whose fetch did not fail, in account order
accountListing(accounts, down) ==
  Flatten([a \in 1..Len(accounts) |->
             IF a \in down THEN <<>> ELSE accounts[a]])

\* fetchRecentEmailsFromClient: the listed messages in order, without those
\* whose messages.get failed
fetchedFrom(listed, lost) ==
  LET kept[n \in 0..Len(listed)] ==
        IF n = 0 THEN <<>>
        ELSE IF n \in lost THEN kept[n - 1]
        ELSE Append(kept[n - 1], listed[n])
  IN kept[Len(listed)]

\* the ascending sequence of a set of identifiers
RECURSIVE ascending(_)
ascending(S) ==
  IF S = {} THEN <<>>
  ELSE LET m == CHOOSE x \in S : \A y \in S : x <= y
       IN <<m>> \o ascending(S \ {m})

\* ------------------------------------------------------------------------
\* The import handler (POST): one action per await that resolves
\* ------------------------------------------------------------------------
InFlight(r, k, st) ==
  /\ run[r].pc = "batch"
  /\ k \in batchOf(run[r])
  /\ run[r].items[k].st = st

\* session, categories and accounts were read and the mailbox answered
\* with active accounts each account is fetched inside its own try/catch;
\* without, the main account is fetched; messages.get failures are caught
\* inside the fetch
StartImport(r) ==
  /\ run[r].pc = "idle"
  /\ \E down \in SUBSET (1..Len(gmailAccounts)) :
       LET listed == IF gmailAccounts = <<>>
                       THEN mailbox[r]
                       ELSE accountListing(gmailAccounts, down)
       IN \E lost \in SUBSET (1..Len(listed)) :
            LET got == fetchedFrom(listed, lost)
                used == Cardinality(down) + Cardinality(lost)
            IN /\ used <= fetchFailLeft
               /\ fetchFailLeft' = fetchFailLeft - used
               /\ run' = [run EXCEPT ![r] =
                    dedupLoop([@ EXCEPT
                       !.listed = listed,
                       !.lostAt = lost,
                       !.accountsDown = down,
                       !.fetched = [n \in 1..Len(got) |->
                                      fetchedItem(got[n], n)],
                       !.snap = emails])]
  /\ UNCHANGED <<retryVars, enr, del, dbVars, envVars, archiveLog, faultsLeft,
                 dbFailLeft, killsLeft>>

\* the fetch from the main account failed: the outer catch answers 500
FetchFails(r) ==
  /\ run[r].pc = "idle"
  /\ gmailAccounts = <<>>
  /\ fetchFailLeft > 0
  /\ fetchFailLeft' = fetchFailLeft - 1
  /\ run' = [run EXCEPT ![r].pc = "failed", ![r].stoppedAt = "idle"]
  /\ UNCHANGED <<retryVars, enr, del, dbVars, envVars, archiveLog, faultsLeft,
                 dbFailLeft, killsLeft>>

\* a read before the item loop failed: the outer catch answers 500
SetupFails(r) ==
  /\ run[r].pc \in {"idle", "dedup"}
  /\ dbFailLeft > 0
  /\ dbFailLeft' = dbFailLeft - 1
  /\ run' = [run EXCEPT ![r].pc = "failed", ![r].stoppedAt = run[r].pc]
  /\ UNCHANGED <<retryVars, enr, del, dbVars, envVars, archiveLog, faultsLeft,
                 otherBudgets>>

\* one iteration of the dedup loop: findUnique answered
DedupCheck(r) ==
  /\ run[r].pc = "dedup"
  /\ LET rs == run[r]
         item == rs.fetched[rs.fidx + 1]
     IN run' = [run EXCEPT ![r] =
          dedupStep(rs, item, existing(emails, item.id))]
  /\ UNCHANGED <<retryVars, enr, del, dbVars, envVars, budgetVars, archiveLog>>

\* the analysis call of an item answered
AnalysisResolves(r, k) ==
  /\ InFlight(r, k, "analyze")
  /\ run[r].items[k].rt.pc = "call"
  /\ LET rt == run[r].items[k].rt
     IN run' = [run EXCEPT ![r] =
          settle(afterAnalysis(@, k, retryResolved(rt, Value(rt.calls))))]
  /\ UNCHANGED <<retryVars, enr, del, dbVars, envVars, budgetVars, archiveLog>>

\* the analysis call of an item failed
AnalysisRejects(r, k) ==
  /\ InFlight(r, k, "analyze")
  /\ run[r].items[k].rt.pc = "call"
  /\ \E m \in AnalysisErrors, j \in AnalysisJitter :
       LET rt == run[r].items[k].rt
           e == Err(m, rt.calls)
       IN /\ faultsLeft > 0
          /\ faultsLeft' = faultsLeft - 1
          /\ run' = [run EXCEPT ![r] =
               settle(afterAnalysis(@, k, retryRejected(rt, e, j)))]
  /\ UNCHANGED <<retryVars, enr, del, dbVars, envVars, archiveLog, dbFailLeft,
                 otherBudgets>>

\* the backoff sleep of an item elapsed
BackoffElapses(r, k) ==
  /\ InFlight(r, k, "analyze")
  /\ run[r].items[k].rt.pc = "sleep"
  /\ run' = [run EXCEPT ![r] =
       settle(afterAnalysis(@, k, retryWake(run[r].items[k].rt)))]
  /\ UNCHANGED <<retryVars, enr, del, dbVars, envVars, budgetVars, archiveLog>>

\* the item's findUnique answered
FindUnique(r, k) ==
  /\ InFlight(r, k, "find")
  /\ run' = [run EXCEPT ![r] =
       IF existing(emails, @.newEmails[k].id)
         THEN settle(itemDone(@, k, "skipped"))
         ELSE [@ EXCEPT !.items[k].st = "create"]]
  /\ UNCHANGED <<retryVars, enr, del, dbVars, envVars, budgetVars, archiveLog>>

\* the item's email.create answered
EmailCreate(r, k) ==
  /\ InFlight(r, k, "create")
  /\ LET item == run[r].newEmails[k]
     IN IF messageIdTaken(emails, item.id)
          THEN /\ run' = [run EXCEPT ![r] =
                    settle(itemCatch([@ EXCEPT !.items[k].rejected = TRUE],
                                     k))]
               /\ UNCHANGED emails
          ELSE /\ emails' = emails \cup
                      {emailRow(item, <<r, k>>, run[r].items[k].rt.result.at)}
               /\ run' = [run EXCEPT ![r].items[k].st = "upsert"]
  /\ UNCHANGED <<retryVars, enr, del, senderProfile, emailInsight, envVars,
                 budgetVars, archiveLog>>

\* the item's senderProfile.upsert answered
SenderUpsert(r, k) ==
  /\ InFlight(r, k, "upsert")
  /\ LET a == run[r].newEmails[k].from
     IN senderProfile' = [senderProfile EXCEPT ![a] = senderUpsert(@)]
  /\ run' = [run EXCEPT ![r] = afterSenderUpsert(@, k, autoArchive)]
  /\ UNCHANGED <<retryVars, enr, del, emails, emailInsight, envVars, budgetVars,
                 archiveLog>>

\* the archive call answered or failed; either way the item is imported
ArchiveReturns(r, k) ==
  /\ InFlight(r, k, "archive")
  /\ \E ok \in BOOLEAN :
       /\ archiveLog' = Append(archiveLog,
                          [id |-> run[r].newEmails[k].id, by |-> <<r, k>>,
                           ok |-> ok])
       /\ run' = [run EXCEPT ![r] = settle(afterArchive(@, k, ok))]
  /\ UNCHANGED <<retryVars, enr, del, dbVars, envVars, budgetVars>>

\* a persistence call of the item failed: the item's catch block
ItemDbFails(r, k) ==
  /\ run[r].pc = "batch"
  /\ k \in batchOf(run[r])
  /\ run[r].items[k].st \in {"find", "create", "upsert"}
  /\ dbFailLeft > 0
  /\ dbFailLeft' = dbFailLeft - 1
  /\ run' = [run EXCEPT ![r] = settle(itemCatch(@, k))]
  /\ UNCHANGED <<retryVars, enr, del, dbVars, envVars, archiveLog, faultsLeft,
                 otherBudgets>>

\* sleep(BATCH_DELAY_MS) elapsed: i += BATCH_SIZE and the next batch
PauseElapses(r) ==
  /\ run[r].pc = "pause"
  /\ run' = [run EXCEPT ![r] =
       batchLoop([@ EXCEPT !.i = @ + BATCH_SIZE, !.pauses = @ + 1])]
  /\ UNCHANGED <<retryVars, enr, del, dbVars, envVars, budgetVars, archiveLog>>

\* emailInsight.upsert answered
InsightUpsert(r) ==
  /\ run[r].pc = "stats"
  /\ emailInsight' = [emailInsight EXCEPT ![today] =
                         insightUpsert(@, run[r].imported)]
  /\ run' = [run EXCEPT ![r].pc =
                           IF run[r].imported > 0 THEN "query1" ELSE "done",
                         ![r].statsDay = today]
  /\ UNCHANGED <<retryVars, enr, del, emails, senderProfile, envVars, budgetVars,
                 archiveLog>>

\* the two findMany of the statistics log answered
StatsQuery(r) ==
  /\ run[r].pc \in {"query1", "query2"}
  /\ run' = [run EXCEPT ![r].pc =
       IF run[r].pc = "query1" THEN "query2" ELSE "done"]
  /\ UNCHANGED <<retryVars, enr, del, dbVars, envVars, budgetVars, archiveLog>>

\* the insight upsert or a statistics query failed: the outer catch
StatsFails(r) ==
  /\ run[r].pc \in {"stats", "query1", "query2"}
  /\ dbFailLeft > 0
  /\ dbFailLeft' = dbFailLeft - 1
  /\ run' = [run EXCEPT ![r].pc = "failed", ![r].stoppedAt = run[r].pc]
  /\ UNCHANGED <<retryVars, enr, del, dbVars, envVars, archiveLog, faultsLeft,
                 otherBudgets>>

\* the host process is terminated while the request is being served
Kill(r) ==
  /\ run[r].pc \in {"dedup", "batch", "pause", "stats", "query1", "query2"}
  /\ killsLeft > 0
  /\ killsLeft' = killsLeft - 1
  /\ run' = [run EXCEPT ![r].pc = "killed", ![r].stoppedAt = run[r].pc]
  /\ UNCHANGED <<retryVars, enr, del, dbVars, envVars, archiveLog, faultsLeft,
                 dbFailLeft, fetchFailLeft>>

\* the import is requested again after a terminated one
Reinvoke(r) ==
  /\ run[r].pc = "off"
  /\ \E o \in Runs \ {r} : run[o].pc = "killed"
  /\ run' = [run EXCEPT ![r].pc = "idle"]
  /\ UNCHANGED <<retryVars, enr, del, dbVars, envVars, budgetVars, archiveLog>>

\* midnight passes
DayPasses ==
  /\ today < lastDay
  /\ today' = today + 1
  /\ UNCHANGED <<retryVars, enr, run, del, dbVars, mailbox, autoArchive,
                 gmailAccounts, lastDay, budgetVars, archiveLog>>

\* ------------------------------------------------------------------------
\* The bulk-delete handler (POST): one action per await that resolves
\* ------------------------------------------------------------------------
\* for (const email of emails): the loop test; after the loop the
\* daily-insight upsert is issued
bulkLoop(d) ==
  IF d.idx < Len(d.targets)
    THEN [d EXCEPT !.pc = "loop"]
    ELSE [d EXCEPT !.pc = "stats"]

\* email.findMany answered with the rows the request names
BulkStart ==
  /\ del.pc = "idle"
  /\ \E ids \in SUBSET {row.messageId : row \in emails} :
        del' = bulkLoop([del EXCEPT !.targets = ascending(ids)])
  /\ UNCHANGED <<retryVars, enr, run, dbVars, envVars, budgetVars, archiveLog>>

\* the message was trashed in the mailbox and its row marked deleted
BulkDeleteItem ==
  /\ del.pc = "loop"
  /\ emails' = softDelete(emails, del.targets[del.idx + 1])
  /\ del' = bulkLoop([del EXCEPT !.deleted = @ + 1, !.idx = @ + 1])
  /\ UNCHANGED <<retryVars, enr, run, senderProfile, emailInsight, envVars,
                 budgetVars, archiveLog>>

\* trashing or marking one message failed: the catch inside the loop
BulkItemFails ==
  /\ del.pc = "loop"
  /\ dbFailLeft > 0
  /\ dbFailLeft' = dbFailLeft - 1
  /\ del' = bulkLoop([del EXCEPT
               !.errors = Append(@, del.targets[del.idx + 1]),
               !.idx = @ + 1])
  /\ UNCHANGED <<retryVars, enr, run, dbVars, envVars, archiveLog, faultsLeft,
                 otherBudgets>>

\* emailInsight.upsert of the bulk delete answered
BulkInsight ==
  /\ del.pc = "stats"
  /\ emailInsight' = [emailInsight EXCEPT ![today] =
                         deleteInsightUpsert(@, del.deleted)]
  /\ del' = [del EXCEPT !.pc = "done", !.statsDay = today]
  /\ UNCHANGED <<retryVars, enr, run, emails, senderProfile, envVars, budgetVars,
                 archiveLog>>

\* findMany or the insight upsert failed: the outer catch answers 500
BulkFails ==
  /\ del.pc \in {"idle", "stats"}
  /\ dbFailLeft > 0
  /\ dbFailLeft' = dbFailLeft - 1
  /\ del' = [del EXCEPT !.pc = "failed"]
  /\ UNCHANGED <<retryVars, enr, run, dbVars, envVars, archiveLog, faultsLeft,
                 otherBudgets>>

NextDelete ==
  \/ BulkStart
  \/ BulkDeleteItem
  \/ BulkItemFails
  \/ BulkInsight
  \/ BulkFails

\* the steps of one request: the answers of its pending calls and timers
ImportStep(r) ==
  \/ StartImport(r)
  \/ FetchFails(r)
  \/ SetupFails(r)
  \/ DedupCheck(r)
  \/ PauseElapses(r)
  \/ InsightUpsert(r)
  \/ StatsQuery(r)
  \/ StatsFails(r)
  \/ \E k \in 1..Len(run[r].newEmails) :
       \/ AnalysisResolves(r, k)
       \/ AnalysisRejects(r, k)
       \/ BackoffElapses(r, k)
       \/ FindUnique(r, k)
       \/ EmailCreate(r, k)
       \/ SenderUpsert(r, k)
       \/ ArchiveReturns(r, k)
       \/ ItemDbFails(r, k)

NextImport ==
  \E r \in Runs :
     \/ ImportStep(r)
     \/ Kill(r)
     \/ Reinvoke(r)

\* ------------------------------------------------------------------------
\* Specifications of the import handler
\* ------------------------------------------------------------------------
Pool == {MsgA, MsgB, MsgC}

FetchLists(n) == UNION {[1..m -> Pool] : m \in 0..n}

\* the store before any request: empty, or holding message A of sender ann
FreshDb ==
  /\ emails = {}
  /\ senderProfile = [a \in Senders |-> NoProfile]
  /\ emailInsight = [d \in Days |-> NoInsight]

UsedDb ==
  /\ emails = {emailRow(MsgA, <<0, 0>>, 1)}
  /\ senderProfile = [a \in Senders |->
       IF a = MsgA.from THEN [present |-> TRUE, totalEmails |-> 1]
                        ELSE NoProfile]
  /\ emailInsight = [d \in Days |->
       IF d = 1
         THEN [present |-> TRUE, emailsProcessed |-> 1, emailsArchived |-> 1,
               emailsDeleted |-> 0, timeSavedMins |-> 2]
         ELSE NoInsight]

InitCommon ==
  /\ rb = NoRetry
  /\ enr = NoCall
  /\ rbLog = <<>>
  /\ archiveLog = <<>>
  /\ today = 1

\* the main account only, one day, no bulk delete, no termination
InitPlain ==
  /\ gmailAccounts = <<>>
  /\ fetchFailLeft = 0
  /\ lastDay = 1
  /\ del = offDelete
  /\ killsLeft = 0

\* two requests running concurrently over overlapping mailboxes; the first
\* may also have been handed the same message twice
InitRace ==
  /\ InitCommon
  /\ InitPlain
  /\ FreshDb
  /\ autoArchive = FALSE
  /\ mailbox \in [Runs -> FetchLists(RaceFetch) \cup {<<MsgA, MsgA>>}]
  /\ mailbox[2] = <<MsgA>>
  /\ run = [r \in Runs |-> idleRun]
  /\ faultsLeft = FewFaults
  /\ dbFailLeft = FewDbFails

\* one request over a short mailbox, with auto-archive switched on
InitSolo ==
  /\ InitCommon
  /\ InitPlain
  /\ FreshDb
  /\ autoArchive = TRUE
  /\ mailbox \in [Runs -> FetchLists(MaxFetch)]
  /\ mailbox[2] = <<>>
  /\ run = [r \in Runs |-> IF r = 1 THEN idleRun ELSE offRun]
  /\ faultsLeft = FewFaults
  /\ dbFailLeft = 0

\* n distinct messages, alternating between the two senders
LongList(n) ==
  [k \in 1..n |->
     [id |-> k, from |-> IF k % 2 = 1 THEN "ann@x" ELSE "bob@x",
      subject |-> IF k % 3 = 0 THEN "C" ELSE IF k % 3 = 1 THEN "A" ELSE "B"]]

\* one request over a mailbox of several batches
InitLong ==
  /\ InitCommon
  /\ InitPlain
  /\ FreshDb
  /\ autoArchive = FALSE
  /\ \E n \in 0..MaxLong : mailbox = [r \in Runs |->
                                IF r = 1 THEN LongList(n) ELSE <<>>]
  /\ run = [r \in Runs |-> IF r = 1 THEN idleRun ELSE offRun]
  /\ faultsLeft = FewFaults
  /\ dbFailLeft = 0

\* one request whose analysis calls fail again and again
InitThrottled ==
  /\ InitCommon
  /\ InitPlain
  /\ FreshDb \/ UsedDb
  /\ autoArchive = FALSE
  /\ \E l \in {<<m>> : m \in Pool} \cup {<<MsgA, MsgB>>} :
        mailbox = [r \in Runs |-> IF r = 1 THEN l ELSE <<>>]
  /\ run = [r \in Runs |-> IF r = 1 THEN idleRun ELSE offRun]
  /\ faultsLeft = MaxFaults
  /\ dbFailLeft = 0

\* two active accounts, or the main account alone, with a mailbox read
\* that fails
InitAccounts ==
  /\ InitCommon
  /\ FreshDb \/ UsedDb
  /\ autoArchive = FALSE
  /\ gmailAccounts \in {<<>>, << <<MsgA, MsgB>>, <<MsgC>> >>}
  /\ mailbox = [r \in Runs |-> IF r = 1 THEN <<MsgA, MsgB>> ELSE <<>>]
  /\ run = [r \in Runs |-> IF r = 1 THEN idleRun ELSE offRun]
  /\ faultsLeft = FewFaults
  /\ dbFailLeft = 0
  /\ fetchFailLeft = FewFetchFails
  /\ lastDay = 1
  /\ del = offDelete
  /\ killsLeft = 0

\* two imports and a bulk delete while midnight passes
InitDays ==
  /\ InitCommon
  /\ UsedDb
  /\ autoArchive = FALSE
  /\ gmailAccounts = <<>>
  /\ mailbox = [r \in Runs |-> IF r = 1 THEN <<MsgA, MsgB>> ELSE <<>>]
  /\ run = [r \in Runs |-> idleRun]
  /\ faultsLeft = 0
  /\ dbFailLeft = FewDbFails
  /\ fetchFailLeft = 0
  /\ lastDay = MaxDay
  /\ del = [offDelete EXCEPT !.pc = "idle"]
  /\ killsLeft = 0

\* an import that is terminated and requested again on the same mailbox
InitResume ==
  /\ InitCommon
  /\ FreshDb \/ UsedDb
  /\ autoArchive = FALSE
  /\ gmailAccounts = <<>>
  /\ \E l \in {<<MsgA, MsgB, MsgC>>, <<MsgA, MsgA, MsgB>>} :
        mailbox = [r \in Runs |-> l]
  /\ run = [r \in Runs |-> IF r = 1 THEN idleRun ELSE offRun]
  /\ faultsLeft = 0
  /\ dbFailLeft = 0
  /\ fetchFailLeft = 0
  /\ lastDay = 1
  /\ del = offDelete
  /\ killsLeft = FewKills

Init ==
  \/ InitRace
  \/ InitSolo
  \/ InitLong
  \/ InitThrottled
  \/ InitAccounts
  \/ InitDays
  \/ InitResume

Next == NextImport \/ NextDelete \/ DayPasses

Spec == Init /\ [][Next]_vars

\* every pending call of a request is answered, or fails, and every timer
\* fires: a request that can take a step eventually takes one
SpecFair == Spec /\ \A r \in Runs : WF_vars(ImportStep(r))

\* ------------------------------------------------------------------------
\* Properties of the import handler
\* ------------------------------------------------------------------------
\* the message holds the word 429, or Resource followed by exhausted
CarriesMarker(o) ==
  \/ \E i \in 1..Len(o.message) : o.message[i] = "429"
  \/ \E i \in 1..(Len(o.message) - 1) :
        o.message[i] = "Resource" /\ o.message[i + 1] = "exhausted"

RateLimited(o) == o.kind = "error" /\ CarriesMarker(o)

Terminal(o) == o.kind = "error" /\ ~CarriesMarker(o)

\* a row with the identifier is among the rows
HasRow(rows, messageId) == \E row \in rows : row.messageId = messageId

RECURSIVE SumOver(_, _)
SumOver(f, S) ==
  IF S = {} THEN 0
  ELSE LET x == CHOOSE y \in S : TRUE IN f[x] + SumOver(f, S \ {x})

Started(r) == run[r].pc \notin {"off", "idle"}

Ended(r) == run[r].pc \in {"done", "failed"}

\* the batch loop of the request has been left
LoopLeft(r) == run[r].pc \in {"stats", "query1", "query2", "done"}

RowsOf(messageId) == {row \in emails : row.messageId = messageId}

\* rows as the import wrote them: only a bulk delete sets the deleted flag
AsImported(rows) == {[row EXCEPT !.isDeleted = FALSE] : row \in rows}

\* new items whose batch has been counted into imported / skipped
Counted(rs) ==
  {k \in 1..Len(rs.items) :
     k <= (IF rs.pc = "pause" \/ rs.stoppedAt = "pause"
             THEN rs.i + BATCH_SIZE ELSE rs.i)}

CountedAs(rs, o) == {k \in Counted(rs) : rs.items[k].outcome = o}

\* C1: an item whose identifier is stored when the request starts gets no
\* second row, the stored row stays as it was, and the item is counted in
\* skipped (by the dedup filter) and never in imported.
C1_StoredItemsAreSkipped ==
  \A r \in Runs :
     Started(r) =>
        LET rs == run[r] IN
        /\ AsImported(rs.snap) \subseteq AsImported(emails)
        /\ rs.imported = Cardinality(CountedAs(rs, "imported"))
        /\ rs.skipped = Cardinality(rs.dedupSkipped)
                          + Cardinality(CountedAs(rs, "skipped"))
        /\ \A f \in 1..Len(rs.fetched) :
              HasRow(rs.snap, rs.fetched[f].id) =>
                 /\ AsImported(RowsOf(rs.fetched[f].id))
                       \subseteq AsImported(rs.snap)
                 /\ Cardinality(RowsOf(rs.fetched[f].id)) = 1
                 /\ \A k \in 1..Len(rs.newEmails) : rs.newEmails[k].pos # f
                 /\ (rs.fidx >= f => f \in rs.dedupSkipped)

C1_Witness ==
  /\ run[1].pc = "done"
  /\ Len(run[1].fetched) = 2
  /\ run[1].fetched[1].id = MsgA.id
  /\ run[1].fetched[2].id = MsgB.id
  /\ HasRow(run[1].snap, MsgA.id)
  /\ run[1].skipped = 1
  /\ run[1].imported = 1

\* C2: the store never holds two rows with the same source identifier,
\* whether the requests overlap or one fetched list repeats an identifier.
C2_OneRowPerIdentifier ==
  \A row \in emails : Cardinality(RowsOf(row.messageId)) = 1

\* two requests are both past their existence check for the same identifier,
\* and so are two items of one batch
C2_Witness ==
  /\ run[1].pc = "batch"
  /\ run[2].pc = "batch"
  /\ Len(run[1].newEmails) = 2
  /\ \A k \in 1..2 : run[1].newEmails[k].id = MsgA.id
  /\ \A k \in 1..2 : run[1].items[k].st = "settled"
                       => run[1].items[k].outcome = "failed"
  /\ run[1].items[1].st = "create"
  /\ run[1].items[2].st = "settled"
  /\ run[2].newEmails[1].id = MsgA.id
  /\ \E row \in emails : row.by = <<2, 1>>

\* C7 as amended: M >= 1 new items are scheduled as ceil(M/B) batches of at
\* most B consecutive items in list order with ceil(M/B) - 1 pauses between
\* them; M = 0 schedules no batch and no pause.
CeilDiv(m, b) == (m + b - 1) \div b

C7_BatchesAndPauses ==
  \A r \in Runs :
     LoopLeft(r) =>
        LET rs == run[r]
            M == Len(rs.newEmails)
        IN /\ Len(rs.sched) = CeilDiv(M, BATCH_SIZE)
           /\ \A b \in 1..Len(rs.sched) :
                 /\ Len(rs.sched[b]) <= BATCH_SIZE
                 /\ Len(rs.sched[b]) >= 1
           /\ Flatten(rs.sched) = [k \in 1..M |-> k]
           /\ rs.pauses = (IF M = 0 THEN 0 ELSE CeilDiv(M, BATCH_SIZE) - 1)

C7_Witness ==
  /\ LoopLeft(1)
  /\ Len(run[1].newEmails) = 9
  /\ run[1].sched = << <<1, 2, 3, 4>>, <<5, 6, 7, 8>>, <<9>> >>
  /\ run[1].pauses = 2

\* C7 as claimed: the number of pauses is ceil(M/B) - 1 for every M >= 0
C7_Original ==
  \A r \in Runs :
     LoopLeft(r) =>
        /\ Len(run[r].sched) = CeilDiv(Len(run[r].newEmails), BATCH_SIZE)
        /\ run[r].pauses = CeilDiv(Len(run[r].newEmails), BATCH_SIZE) - 1

\* C8: an item is started only when every item of the earlier batches has
\* settled and the pause after each earlier batch has elapsed.
BatchNo(k) == ((k - 1) \div BATCH_SIZE) + 1

C8_BatchesAreSequential ==
  \A r \in Runs :
     \A k \in 1..Len(run[r].items) :
        run[r].items[k].st # "waiting" =>
           /\ \A e \in 1..Len(run[r].items) :
                 BatchNo(e) < BatchNo(k) => run[r].items[e].st = "settled"
           /\ run[r].pauses >= BatchNo(k) - 1
           /\ Len(run[r].sched) >= BatchNo(k)

\* the second batch is running after a first batch in which one item failed
C8_Witness ==
  /\ run[1].pc = "batch"
  /\ run[1].i = BATCH_SIZE
  /\ \E k \in batchOf(run[1]) : run[1].items[k].st = "find"
  /\ \E e \in 1..BATCH_SIZE : run[1].items[e].outcome = "failed"

\* rows of a sender stored before any request
PriorCount(a) ==
  Cardinality({row \in emails : row.by = <<0, 0>> /\ row.from = a})

\* new items of a request whose senderProfile.upsert has been applied
Upserted(r, a) ==
  {k \in 1..Len(run[r].items) :
     /\ run[r].newEmails[k].from = a
     /\ \/ run[r].items[k].st = "archive"
        \/ run[r].items[k].outcome = "imported"}

SenderCountsMatch ==
  \A a \in Senders :
     /\ senderProfile[a].totalEmails =
          PriorCount(a) + Cardinality(Upserted(1, a))
                        + Cardinality(Upserted(2, a))
     /\ senderProfile[a].present = (senderProfile[a].totalEmails > 0)

\* C9: the count of a sender grows by one for every item of that sender
\* that is imported, in whatever order the items complete; a request that
\* imported k items of the sender ends with the count k higher.
C9_SenderCountExact ==
  /\ SenderCountsMatch
  /\ \A r \in Runs, a \in Senders :
        (Ended(r) /\ \A o \in Runs \ {r} : ~Started(o)) =>
           senderProfile[a].totalEmails =
              PriorCount(a)
                + Cardinality({k \in 1..Len(run[r].items) :
                     /\ run[r].newEmails[k].from = a
                     /\ run[r].items[k].outcome = "imported"})

C9_Witness ==
  /\ run[1].pc = "done"
  /\ Len(run[1].newEmails) = 9
  /\ run[1].imported = 8
  /\ run[1].items[1].outcome = "imported"
  /\ run[1].items[3].outcome = "imported"
  /\ senderProfile["ann@x"].totalEmails = 5

\* C10 as amended: an item whose analysis fails for good adds exactly one
\* entry with its subject to the error list, is counted in neither imported
\* nor skipped, and itself creates no row and no sender increment; a row
\* with its identifier exists only if another item carrying the same
\* identifier was imported.
Subjects == {"A", "B", "C"}

EntryCount(rs, t) ==
  Cardinality({n \in 1..Len(rs.errors) : rs.errors[n] = errorEntry([subject |-> t])})

FailedWith(rs, t) ==
  {k \in 1..Len(rs.items) :
     rs.items[k].outcome = "failed" /\ rs.newEmails[k].subject = t}

AnalysisFailed(r, k) == run[r].items[k].rt.pc = "thrown"

OtherItemWithId(r, k) ==
  \E o \in Runs :
     \E e \in 1..Len(run[o].newEmails) :
        /\ <<o, e>> # <<r, k>>
        /\ run[o].newEmails[e].id = run[r].newEmails[k].id

C10_FailedItemLeavesNoTrace ==
  /\ SenderCountsMatch
  /\ \A r \in Runs :
        LET rs == run[r] IN
        /\ \A t \in Subjects :
              EntryCount(rs, t) = Cardinality(FailedWith(rs, t))
        /\ rs.imported = Cardinality(CountedAs(rs, "imported"))
        /\ rs.skipped = Cardinality(rs.dedupSkipped)
                          + Cardinality(CountedAs(rs, "skipped"))
        /\ \A k \in 1..Len(rs.items) :
              AnalysisFailed(r, k) =>
                 /\ rs.items[k].st = "settled"
                 /\ rs.items[k].outcome = "failed"
                 /\ \A row \in emails : row.by # <<r, k>>
                 /\ k \notin Upserted(r, rs.newEmails[k].from)
                 /\ (~OtherItemWithId(r, k) =>
                        ~HasRow(emails, rs.newEmails[k].id))

\* an item ran out of retries and another failed at once, request answered
C10_Witness ==
  /\ run[1].pc = "done"
  /\ Len(run[1].newEmails) = 2
  /\ AnalysisFailed(1, 1)
  /\ run[1].items[1].rt.calls = DefaultMaxRetries
  /\ RateLimited(run[1].items[1].rt.result)
  /\ run[1].items[2].outcome = "imported"
  /\ run[1].errors = <<errorEntry(run[1].newEmails[1])>>
  /\ run[1].imported = 1
  /\ run[1].skipped = 0

\* C10 as claimed: the failed item has no StoredMessage when the request ends
C10_Original ==
  \A r \in Runs :
     Ended(r) =>
        \A k \in 1..Len(run[r].items) :
           AnalysisFailed(r, k) => ~HasRow(emails, run[r].newEmails[k].id)

\* an item of the running batch that has not settled has a step to take
CanMove(it) ==
  \/ it.st = "analyze" /\ it.rt.pc \in {"call", "sleep"}
  \/ it.st \in {"find", "create", "upsert", "archive"}

\* the request reached the daily-insight upsert
ReachedStats(rs) ==
  \/ rs.pc \in {"stats", "query1", "query2", "done"}
  \/ rs.stoppedAt \in {"stats", "query1", "query2"}

\* C11: a failure while analysing or persisting an item settles that item
\* only: the request never fails inside the batch loop, every unsettled item
\* of the running batch keeps a step to take, and when the request reaches
\* the daily-insight upsert every item has settled and every batch was
\* scheduled.
C11_ItemFailureIsIsolated ==
  \A r \in Runs :
     LET rs == run[r] IN
     /\ rs.pc = "failed" =>
           rs.stoppedAt \in {"idle", "dedup", "stats", "query1", "query2"}
     /\ rs.pc = "batch" =>
           /\ \E k \in batchOf(rs) : rs.items[k].st # "settled"
           /\ \A k \in batchOf(rs) :
                 rs.items[k].st # "settled" => CanMove(rs.items[k])
     /\ rs.pc = "pause" =>
           \A k \in batchOf(rs) : rs.items[k].st = "settled"
     /\ ReachedStats(rs) =>
           /\ \A k \in 1..Len(rs.items) : rs.items[k].st = "settled"
           /\ Len(rs.sched) = CeilDiv(Len(rs.newEmails), BATCH_SIZE)

\* an item of the first batch failed; the rest of its batch and both later
\* batches were processed and the request is at the daily-insight upsert
C11_Witness ==
  /\ run[1].pc = "stats"
  /\ Len(run[1].newEmails) = 9
  /\ run[1].items[2].outcome = "failed"
  /\ \A k \in {1, 3, 4, 5, 9} : run[1].items[k].outcome = "imported"
  /\ Len(run[1].sched) = 3
  /\ Len(run[1].errors) = 1

\* C12 as claimed: a request that got past the reads before the item loop
\* ends with the summary whatever fails after the loop, and a request that
\* stored an item never ends in an error response.
C12_Original ==
  \A r \in Runs :
     /\ run[r].pc = "failed" => run[r].stoppedAt \in {"idle", "dedup"}
     /\ (\E row \in emails : row.by[1] = r) => run[r].pc # "failed"

\* the fetch of the request failed: of the main account, or of an account
FetchFailed(rs) ==
  \/ rs.pc = "failed" /\ rs.stoppedAt = "idle"
  \/ rs.accountsDown # {}

\* C13 as claimed: when reading the categories or fetching the list fails,
\* for the main account or for any active account, no item is analysed or
\* stored and the request does not end with the summary.
C13_Original ==
  \A r \in Runs :
     FetchFailed(run[r]) =>
        /\ run[r].pc # "done"
        /\ \A k \in 1..Len(run[r].items) : run[r].items[k].st = "waiting"
        /\ \A row \in emails : row.by[1] # r

\* C14 as claimed: every listed message that could not be fetched has an
\* entry in the error list of the summary and is counted in neither
\* imported nor skipped.
C14_Original ==
  \A r \in Runs :
     run[r].pc = "done" =>
        LET rs == run[r]
            failed == {k \in 1..Len(rs.items) : rs.items[k].outcome = "failed"}
        IN /\ Len(rs.errors) = Cardinality(failed) + Cardinality(rs.lostAt)
           /\ rs.imported + rs.skipped + Len(rs.errors) = Len(rs.listed)

\* C15: an archive call that fails after the item's row and sender count
\* were written leaves the item imported, adds no error entry, leaves both
\* writes in place, and is the only archive call made for the item.
C15_ArchiveFailureIsSwallowed ==
  /\ SenderCountsMatch
  /\ \A n \in 1..Len(archiveLog) :
        LET e == archiveLog[n]
            r == e.by[1]
            k == e.by[2]
            rs == run[r]
        IN /\ \A m \in 1..Len(archiveLog) : archiveLog[m].by = e.by => m = n
           /\ ~e.ok =>
                 /\ rs.items[k].st = "settled"
                 /\ rs.items[k].outcome = "imported"
                 /\ \E row \in emails : row.by = e.by
                 /\ k \in Upserted(r, rs.newEmails[k].from)
                 /\ \A t \in Subjects :
                       EntryCount(rs, t) = Cardinality(FailedWith(rs, t))
                 /\ rs.imported = Cardinality(CountedAs(rs, "imported"))
                 /\ (Ended(r) => k \in CountedAs(rs, "imported"))

\* the archive call of the first item failed and that of the second did not
C15_Witness ==
  /\ run[1].pc = "done"
  /\ Len(run[1].newEmails) = 2
  /\ \E n \in 1..Len(archiveLog) :
        archiveLog[n].by = <<1, 1>> /\ ~archiveLog[n].ok
  /\ \E n \in 1..Len(archiveLog) :
        archiveLog[n].by = <<1, 2>> /\ archiveLog[n].ok
  /\ run[1].imported = 2
  /\ run[1].errors = <<>>

ImportedItems(rs) ==
  {k \in 1..Len(rs.items) : rs.items[k].outcome = "imported"}

\* C16: the daily-insight upsert of a request raises the processed count,
\* the archived count and the minutes saved of the current day by n, n and
\* 2n, n being the number of items the request imported, and creates the
\* record with these values when it is absent; skipped and failed items add
\* nothing.
C16_DailyRecordGrowsByImported ==
  [][\A r \in Runs :
       (run[r].pc = "stats" /\ run'[r].pc \in {"query1", "done"}) =>
          LET n == Cardinality(ImportedItems(run[r]))
              old == emailInsight[today]
              new == emailInsight'[today]
          IN /\ ~old.present =>
                   old.emailsProcessed = 0 /\ old.emailsArchived = 0
                                           /\ old.timeSavedMins = 0
             /\ new.present
             /\ new.emailsProcessed = old.emailsProcessed + n
             /\ new.emailsArchived = old.emailsArchived + n
             /\ new.timeSavedMins = old.timeSavedMins + 2 * n
             /\ new.emailsDeleted = old.emailsDeleted]_vars

\* one item skipped, one failed, one imported, on top of the record of an
\* earlier request
C16_Witness ==
  /\ run[1].pc = "done"
  /\ Len(run[1].fetched) = 3
  /\ run[1].skipped = 1
  /\ Len(run[1].errors) = 1
  /\ run[1].imported = 1
  /\ emailInsight[1].emailsProcessed = 2
  /\ emailInsight[1].emailsArchived = 2
  /\ emailInsight[1].timeSavedMins = 4

\* C17: no step of an import or of a bulk delete lowers a counter of a
\* daily record or removes a record, and a step changes no record but the
\* one of the current day.
C17_DailyRecordsOnlyGrow ==
  [][\A d \in Days :
       /\ emailInsight[d].present => emailInsight'[d].present
       /\ emailInsight'[d].emailsProcessed >= emailInsight[d].emailsProcessed
       /\ emailInsight'[d].emailsArchived >= emailInsight[d].emailsArchived
       /\ emailInsight'[d].emailsDeleted >= emailInsight[d].emailsDeleted
       /\ emailInsight'[d].timeSavedMins >= emailInsight[d].timeSavedMins
       /\ d # today => emailInsight'[d] = emailInsight[d]]_vars

\* an import on the first day, then an import and a bulk delete on the
\* second
C17_Witness ==
  /\ today = 2
  /\ run[1].pc = "done"
  /\ run[2].pc = "done"
  /\ del.pc = "done"
  /\ del.deleted = 2
  /\ emailInsight[1].emailsProcessed = 2
  /\ emailInsight[1].emailsDeleted = 0
  /\ emailInsight[2].present
  /\ emailInsight[2].emailsProcessed = 0
  /\ emailInsight[2].emailsDeleted = 2
  /\ emailInsight[2].timeSavedMins = 2

\* C18 as claimed: an item whose insert is refused by the uniqueness
\* constraint is counted in skipped and adds no entry to the error list.
C18_Original ==
  \A r \in Runs :
     LET rs == run[r] IN
     /\ \A k \in 1..Len(rs.items) :
           rs.items[k].rejected => rs.items[k].outcome = "skipped"
     /\ Len(rs.errors) =
           Cardinality({k \in 1..Len(rs.items) :
              rs.items[k].outcome = "failed" /\ ~rs.items[k].rejected})

Ids(rows) == {row.messageId : row \in rows}

ListedIds(rs) == {rs.listed[p].id : p \in 1..Len(rs.listed)}

RowsBy(r) == {row \in emails : row.by[1] = r}

\* C19: when a request was terminated and the import ran again to its end
\* on the same mailbox contents, the second request skipped every item
\* whose row the first had stored and wrote nothing for it, processed
\* exactly the other items, and the store ends with one row for each listed
\* identifier, as after one request that was not interrupted.
C19_ResumeSkipsCompleted ==
  \A o \in Runs : \A r \in Runs \ {o} :
     (run[o].pc = "killed" /\ run[r].pc = "done") =>
        LET rs == run[r] IN
        /\ rs.listed = run[o].listed
        /\ AsImported(RowsBy(o)) \subseteq AsImported(rs.snap)
        /\ \A f \in 1..Len(rs.fetched) :
              IF HasRow(rs.snap, rs.fetched[f].id)
                THEN /\ f \in rs.dedupSkipped
                     /\ \A k \in 1..Len(rs.newEmails) : rs.newEmails[k].pos # f
                     /\ \A row \in RowsBy(r) : row.messageId # rs.fetched[f].id
                ELSE \E k \in 1..Len(rs.newEmails) :
                        /\ rs.newEmails[k].pos = f
                        /\ rs.items[k].st = "settled"
        /\ rs.skipped >= Cardinality(rs.dedupSkipped)
        /\ Ids(emails) = Ids(rs.snap) \cup ListedIds(rs)
        /\ Ids(rs.snap) = Ids({row \in emails : row.by = <<0, 0>>})
                             \cup Ids(RowsBy(o))
        /\ \A row \in emails : Cardinality(RowsOf(row.messageId)) = 1
        /\ SenderCountsMatch

\* the first request was terminated in its batch after storing one message
\* of three; the second skipped that one and imported the other two
C19_Witness ==
  /\ run[1].pc = "killed"
  /\ run[1].stoppedAt = "batch"
  /\ Ids(RowsBy(1)) = {MsgA.id}
  /\ run[2].pc = "done"
  /\ Len(run[2].fetched) = 3
  /\ run[2].dedupSkipped = {1}
  /\ run[2].skipped = 1
  /\ run[2].imported = 2
  /\ Ids(emails) = {MsgA.id, MsgB.id, MsgC.id}

\* the dedup loop has looked at the first n fetched items
Checked(rs) == 1..rs.fidx

NewPlaces(rs) == {rs.newEmails[k].pos : k \in 1..Len(rs.newEmails)}

\* C20: every fetched item the dedup loop has looked at is either counted
\* as skipped or among the new items, never both and never neither; it is
\* skipped exactly when a row with its identifier is stored when it is
\* looked at; the new items keep their fetch order; the loop ends only when
\* it has looked at every fetched item.
C20_DedupPartitions ==
  /\ [](\A r \in Runs :
          LET rs == run[r] IN
          /\ rs.dedupSkipped \cup NewPlaces(rs) = Checked(rs)
          /\ rs.dedupSkipped \cap NewPlaces(rs) = {}
          /\ Cardinality(rs.dedupSkipped) + Len(rs.newEmails) = rs.fidx
          /\ \A k \in 1..Len(rs.newEmails) :
                /\ rs.newEmails[k] = rs.fetched[rs.newEmails[k].pos]
                /\ \A l \in 1..(k - 1) :
                      rs.newEmails[l].pos < rs.newEmails[k].pos
          /\ \A f \in rs.dedupSkipped : HasRow(emails, rs.fetched[f].id)
          /\ rs.pc = "dedup" => rs.skipped = Cardinality(rs.dedupSkipped)
          /\ (rs.pc \in {"batch", "pause"} \/ ReachedStats(rs)) =>
                rs.fidx = Len(rs.fetched))
  /\ [][\A r \in Runs :
          run'[r].fidx = run[r].fidx + 1 =>
             ((run'[r].fidx \in run'[r].dedupSkipped)
                <=> HasRow(emails, run[r].fetched[run'[r].fidx].id))]_vars

\* of three fetched items the first is stored and the other two are new
C20_Witness ==
  /\ run[1].pc = "batch"
  /\ Len(run[1].fetched) = 3
  /\ run[1].dedupSkipped = {1}
  /\ Len(run[1].newEmails) = 2
  /\ run[1].newEmails[1].pos = 2
  /\ run[1].newEmails[2].pos = 3
  /\ run[1].skipped = 1

\* C24 as claimed: when a request is over, whether it answered or was
\* terminated, every item that has a row created by the request has had
\* the count of its sender incremented for it, and an item with an entry
\* in the error list has neither a row nor an increment.
C24_Original ==
  \A r \in Runs :
     run[r].pc \in {"done", "failed", "killed"} =>
        \A k \in 1..Len(run[r].items) :
           /\ (\E row \in emails : row.by = <<r, k>>) =>
                 k \in Upserted(r, run[r].newEmails[k].from)
           /\ run[r].items[k].outcome = "failed" =>
                 /\ ~\E row \in emails : row.by = <<r, k>>
                 /\ k \notin Upserted(r, run[r].newEmails[k].from)

\* analysis calls issued by a request in the window of its batch b
WindowCalls(rs, b) ==
  SumOver([k \in 1..Len(rs.items) |->
             IF BatchNo(k) = b THEN rs.items[k].rt.calls ELSE 0],
          1..Len(rs.items))

\* rate-limited failures answered with a backoff in the window of batch b
WindowRetries(rs, b) ==
  SumOver([k \in 1..Len(rs.items) |->
             IF BatchNo(k) = b THEN Len(rs.items[k].rt.sleeps) ELSE 0],
          1..Len(rs.items))

PriorInsight(d) ==
  LET n == IF d = 1 THEN Cardinality({row \in emails : row.by = <<0, 0>>})
           ELSE 0
  IN [present |-> n > 0, emailsProcessed |-> n, emailsArchived |-> n,
      emailsDeleted |-> 0, timeSavedMins |-> 2 * n]

\* what the imports, and the bulk delete, have added to the record of a day
ImportedOn(d) ==
  SumOver([r \in Runs |-> IF run[r].statsDay = d THEN run[r].imported ELSE 0],
          Runs)

DeletedOn(d) == IF del.statsDay = d THEN del.deleted ELSE 0

\* C26: when two imports, or an import and a bulk delete, update the
\* record of the same day, no increment is lost: the counters are the
\* initial ones plus what each operation added, also when the day had no
\* record before either of them.
C26_NoIncrementLost ==
  \A d \in Days :
     /\ emailInsight[d].emailsProcessed =
           PriorInsight(d).emailsProcessed + ImportedOn(d)
     /\ emailInsight[d].emailsArchived =
           PriorInsight(d).emailsArchived + ImportedOn(d)
     /\ emailInsight[d].emailsDeleted =
           PriorInsight(d).emailsDeleted + DeletedOn(d)
     /\ emailInsight[d].timeSavedMins =
           PriorInsight(d).timeSavedMins + 2 * ImportedOn(d) + DeletedOn(d)
     /\ emailInsight[d].present =
           \/ PriorInsight(d).present
           \/ del.statsDay = d
           \/ \E r \in Runs : run[r].statsDay = d

\* an import and a bulk delete, both in flight, have written the record of
\* a day that had none
C26_Witness ==
  /\ run[1].statsDay = MaxDay
  /\ del.statsDay = MaxDay
  /\ run[1].pc = "query1"
  /\ run[1].imported = 1
  /\ del.deleted >= 1
  /\ emailInsight[MaxDay].emailsProcessed = 1
  /\ emailInsight[MaxDay].emailsDeleted = del.deleted

\* the request ran alone, and none of its calls failed for a reason of
\* its own: every analysis answered at once and the store was available
Undisturbed(r) ==
  /\ \A o \in Runs \ {r} : ~Started(o)
  /\ del.pc \in {"off", "idle"}
  /\ run[r].stoppedAt = "none"
  /\ \A k \in 1..Len(run[r].items) :
        /\ run[r].items[k].rt.calls = 1
        /\ run[r].items[k].rt.pc = "returned"
        /\ run[r].items[k].outcome = "failed" => run[r].items[k].rejected

\* C27 as claimed: with the outcome of every call fixed, the counts and
\* what is stored at the end do not depend on the order in which the items
\* of a batch complete, also when two of them carry the same identifier.
\* With every call succeeding they are therefore those of the order in
\* which each item completes before the next one moves: one item imported
\* per new identifier, the others skipped, nothing failed, one row per
\* identifier and a sender count of one per row.
C27_Original ==
  \A r \in Runs :
     (run[r].pc = "done" /\ Undisturbed(r)) =>
        LET rs == run[r]
            newIds == {rs.newEmails[k].id : k \in 1..Len(rs.newEmails)}
        IN /\ rs.imported = Cardinality(newIds)
           /\ rs.skipped = Len(rs.fetched) - Cardinality(newIds)
           /\ Len(rs.errors) = 0
           /\ \A id \in newIds : Cardinality(RowsOf(id)) = 1
           /\ SenderCountsMatch

\* C28: every item returned by the mailbox fetch is accounted for exactly
\* once in the response: when the request has left the batch loop, and so
\* when it answers with the summary, imported + skipped + the number of
\* error entries is the number of fetched items, whatever the mix of
\* successes, duplicates and failures.
C28_EveryItemCountedOnce ==
  \A r \in Runs :
     ReachedStats(run[r]) =>
        run[r].imported + run[r].skipped + Len(run[r].errors)
           = Len(run[r].fetched)

\* a summary with an imported, a skipped and a failed item
C28_Witness ==
  \E r \in Runs :
     /\ run[r].pc = "done"
     /\ run[r].imported >= 1
     /\ run[r].skipped >= 1
     /\ Len(run[r].errors) >= 1
     /\ Len(run[r].fetched) = 3

\* an archive call has been issued for the item
ArchiveIssued(r, k) ==
  \/ run[r].items[k].st = "archive"
  \/ \E n \in 1..Len(archiveLog) : archiveLog[n].by = <<r, k>>

\* C29: an archive call is issued for an item only when
\* AUTO_ARCHIVE_EMAILS is 'true' and only after the item's row was created
\* and its sender count written; an item that was skipped or failed, and a
\* message without a row, is never archived by the import.
C29_ArchiveOnlyAfterWrites ==
  /\ SenderCountsMatch
  /\ \A n \in 1..Len(archiveLog) : HasRow(emails, archiveLog[n].id)
  /\ \A r \in Runs :
        \A k \in 1..Len(run[r].items) :
           ArchiveIssued(r, k) =>
              /\ autoArchive
              /\ \E row \in emails : row.by = <<r, k>>
              /\ k \in Upserted(r, run[r].newEmails[k].from)
              /\ run[r].items[k].outcome \in {"none", "imported"}

\* of two items the one that failed was not archived, the other was
C29_Witness ==
  /\ autoArchive
  /\ run[1].pc = "done"
  /\ Len(run[1].items) = 2
  /\ run[1].items[1].outcome = "failed"
  /\ ~ArchiveIssued(1, 1)
  /\ run[1].items[2].outcome = "imported"
  /\ ArchiveIssued(1, 2)

\* C30: when every call to the mailbox, the analysis and the store is
\* eventually answered or fails, every request that is not cut short by
\* its host eventually answers, and answers once: an item issues at most
\* max-attempts analysis calls and sleeps fewer times than that, at most
\* ceil(M/B) batches are started for M new items, with fewer pauses than
\* batches.
RunIsBounded(rs) ==
  /\ \A k \in 1..Len(rs.items) :
        /\ rs.items[k].rt.calls <= DefaultMaxRetries
        /\ Len(rs.items[k].rt.sleeps) < DefaultMaxRetries
  /\ Len(rs.sched) <= CeilDiv(Len(rs.newEmails), BATCH_SIZE)
  /\ rs.pauses <= Len(rs.sched)
  /\ rs.pauses < Max(Len(rs.sched), 1)

C30_EveryRequestAnswers ==
  /\ [](\A r \in Runs : RunIsBounded(run[r]))
  /\ [][\A r \in Runs : Ended(r) => run'[r] = run[r]]_vars
  /\ \A r \in Runs :
        (run[r].pc # "off") ~> (Ended(r) \/ run[r].pc = "killed")

\* a request answered after an item used up all its attempts
C30_Witness ==
  /\ run[1].pc = "done"
  /\ \E k \in 1..Len(run[1].items) :
        /\ run[1].items[k].rt.calls = DefaultMaxRetries
        /\ Len(run[1].items[k].rt.sleeps) = DefaultMaxRetries - 1
        /\ run[1].items[k].rt.pc = "thrown"

\* ------------------------------------------------------------------------
\* Properties of retryWithBackoff
\* ------------------------------------------------------------------------
\* C3: with max attempts N >= 1 the operation is invoked at most N times,
\* whatever it does on each invocation.
C3_AtMostMaxAttempts ==
  rb.maxRetries >= 1 =>
     /\ rb.calls <= rb.maxRetries
     /\ Len(rbLog) <= rb.calls

C3_Witness ==
  /\ rb.maxRetries >= 2
  /\ rb.calls = rb.maxRetries
  /\ Len(rbLog) = rb.maxRetries
  /\ rb.pc = "thrown"

\* C4: an invocation that fails with an error carrying neither marker is the
\* last one: no sleep follows it, the call rejects with that very error, and
\* when it is the first invocation the operation ran exactly once.
C4_FailFast ==
  \A i \in 1..Len(rbLog) :
     Terminal(rbLog[i]) =>
        /\ i = Len(rbLog)
        /\ rb.calls = i
        /\ rb.pc = "thrown"
        /\ rb.result = rbLog[i]
        /\ Len(rb.sleeps) = i - 1
        /\ (i = 1 => rb.calls = 1 /\ rb.sleeps = <<>>)

C4_Witness ==
  /\ rb.maxRetries = DefaultMaxRetries
  /\ Len(rbLog) = 1
  /\ rbLog[1] = Err(<<"Resource", "temporarily", "exhausted">>, 1)
  /\ rb.pc = "thrown"

\* C5: rate-limit failures on attempts 1..k-1 and success on attempt k give
\* the attempt-k result after k invocations and k-1 sleeps, the n-th sleep
\* lasting at least base*2^(n-1) and less than base*2^(n-1)+1000 ms.
C5_SucceedsAfterBackoff ==
  \A k \in 1..Len(rbLog) :
     (/\ rbLog[k].kind = "value"
      /\ \A i \in 1..(k - 1) : RateLimited(rbLog[i]))
     =>
        /\ k = Len(rbLog)
        /\ rb.pc = "returned"
        /\ rb.result = rbLog[k]
        /\ rb.result.at = k
        /\ rb.calls = k
        /\ Len(rb.sleeps) = k - 1
        /\ \A n \in 1..(k - 1) :
              /\ rb.sleeps[n] >= rb.baseDelay * Pow2(n - 1)
              /\ rb.sleeps[n] < rb.baseDelay * Pow2(n - 1) + JitterRange

C5_Witness ==
  /\ rb.maxRetries = DefaultMaxRetries
  /\ rb.baseDelay = DefaultBaseDelay
  /\ rb.pc = "returned"
  /\ rb.calls = 4
  /\ Len(rb.sleeps) = 3
  /\ rb.sleeps[3] = 4999

\* C6: when all N >= 1 attempts are rate limited the call rejects with the
\* N-th attempt's error after N-1 sleeps; the generic error appears only for
\* max attempts <= 0, and then the operation was never invoked.
C6_ExhaustedRethrowsLast ==
  /\ (/\ rb.maxRetries >= 1
      /\ Len(rbLog) = rb.maxRetries
      /\ \A i \in 1..Len(rbLog) : RateLimited(rbLog[i]))
     =>
        /\ rb.pc = "thrown"
        /\ rb.result = rbLog[rb.maxRetries]
        /\ rb.result # MaxRetriesExceeded
        /\ Len(rb.sleeps) = rb.maxRetries - 1
        /\ rb.calls = rb.maxRetries
  /\ (rb.result = MaxRetriesExceeded) =>
        /\ rb.maxRetries <= 0
        /\ rb.calls = 0
        /\ rb.pc = "thrown"
  /\ (rb.maxRetries <= 0) =>
        /\ rb.result = MaxRetriesExceeded
        /\ rb.calls = 0

C6_Witness ==
  /\ rb.maxRetries = DefaultMaxRetries
  /\ Len(rbLog) = DefaultMaxRetries
  /\ \A i \in 1..Len(rbLog) : RateLimited(rbLog[i])
  /\ rb.pc = "thrown"
  /\ Len(rb.sleeps) = 4

\* ------------------------------------------------------------------------
\* Properties of the enrichment functions
\* ------------------------------------------------------------------------
Returned(fn) == enr.fn = fn /\ enr.pc \in {"returned", "created"}

Pow10(n) == IF n = 0 THEN 1 ELSE IF n = 1 THEN 10 ELSE IF n = 2 THEN 100
            ELSE 1000

\* a text that is a decimal numeral, with a minus sign or without
PlainDecimal(t) ==
  LET ds == IF t # <<>> /\ Head(t) = "-" THEN Tail(t) ELSE t
  IN /\ Len(ds) \in 1..4
     /\ \A p \in 1..Len(ds) : ds[p] \in {"0", "1", "5", "9"}

\* the number a decimal numeral denotes
DecimalOf(t) ==
  LET neg == Head(t) = "-"
      ds == IF neg THEN Tail(t) ELSE t
      v == SumOver([p \in 1..Len(ds) |->
                      (CASE ds[p] = "0" -> 0 [] ds[p] = "1" -> 1
                         [] ds[p] = "5" -> 5 [] ds[p] = "9" -> 9)
                        * Pow10(Len(ds) - p)],
                   1..Len(ds))
  IN IF neg THEN 0 - v ELSE v

\* a text no number can be read from: empty, or starting with something
\* that is neither a digit nor a sign, or a sign without a digit after it
NoNumber(t) ==
  \/ \A p \in 1..Len(t) : t[p] = " "
  \/ \E p \in 1..Len(t) :
       /\ \A q \in 1..(p - 1) : t[q] = " "
       /\ \/ t[p] \in {".", "x"}
          \/ /\ t[p] \in {"+", "-"}
             /\ (p = Len(t) \/ t[p + 1] \notin {"0", "1", "5", "9"})

\* C21: calculatePriorityScore returns an integer between 0 and 100 for
\* every response and never raises: a response that is a number gives that
\* number clamped to [0, 100], a response no number can be read from, or a
\* failed call, gives 50; the row is written with the returned score.
C21_ScoreIsClamped ==
  /\ enr.fn = "calculatePriorityScore" => enr.pc \in {"call", "returned", "created"}
  /\ Returned("calculatePriorityScore") =>
       /\ enr.out \in 0..100
       /\ enr.input.failed => enr.out = 50
       /\ (~enr.input.failed /\ NoNumber(enr.input.text)) => enr.out = 50
       /\ (~enr.input.failed /\ PlainDecimal(enr.input.text)) =>
            enr.out = (IF DecimalOf(enr.input.text) < 0 THEN 0
                       ELSE IF DecimalOf(enr.input.text) > 100 THEN 100
                       ELSE DecimalOf(enr.input.text))
       /\ enr.pc = "created" => enr.row.aiPriorityScore = enr.out

\* a response above the range was stored as 100
C21_Witness ==
  /\ enr.fn = "calculatePriorityScore"
  /\ enr.pc = "created"
  /\ ~enr.input.failed
  /\ enr.input.text = <<"1", "5", "0">>
  /\ enr.row.aiPriorityScore = 100

RECURSIVE Joined(_)
Joined(ms) ==
  IF ms = <<>> THEN <<>>
  ELSE IF Len(ms) = 1 THEN ms
  ELSE <<Head(ms), ",">> \o Joined(Tail(ms))

\* the texts that are a JSON object
ObjectTexts == {<<"{">> \o Joined(ms) \o <<"}">> : ms \in Texts(JsonMembers, 3)}

ContainsObject(t) ==
  \E i \in 1..Len(t), j \in 1..Len(t) : i <= j /\ SubSeq(t, i, j) \in ObjectTexts

\* C22: detectImportantInfo never raises; when the response holds no JSON
\* object that can be parsed, or the call fails, it returns hasImportant =
\* false and no flags, so the item goes on to its row; the row is written
\* with the returned hasImportant, and with null for an empty list of flags.
C22_DegradedInfoIsEmpty ==
  /\ enr.fn = "detectImportantInfo" => enr.pc # "raised"
  /\ Returned("detectImportantInfo") =>
       /\ (enr.input.failed \/ ~ContainsObject(enr.input.text)) =>
            (~enr.out.hasImportant /\ enr.out.flags = <<>>)
       /\ enr.pc = "created" =>
            /\ enr.row.hasImportantInfo = enr.out.hasImportant
            /\ enr.out.flags = <<>> => enr.row.importantInfoFlags.null
            /\ enr.out.flags # <<>> => ~enr.row.importantInfoFlags.null

\* braces around something that is not JSON: nothing detected, null stored
C22_Witness ==
  /\ enr.fn = "detectImportantInfo"
  /\ enr.pc = "created"
  /\ enr.input.text = <<"text", "{", "text", "}">>
  /\ enr.row = [hasImportantInfo |-> FALSE, importantInfoFlags |-> Null]

\* the link of the first piece that carries the first keyword, in the
\* order given, that any piece carries
RECURSIVE ScanOf(_, _)
ScanOf(parts, keywords) ==
  IF keywords = <<>> THEN NoLink
  ELSE LET hits == {i \in 1..Len(parts) : Head(keywords) \in parts[i].kws}
       IN IF hits # {} THEN Link(parts[SetMin(hits)].link)
          ELSE ScanOf(parts, Tail(keywords))

\* the anchors that read as an unsubscribe link and lead to an http address
GoodAnchors(elems) ==
  {i \in 1..Len(elems) :
     /\ elems[i].anchor
     /\ elems[i].keyword
     /\ elems[i].url # <<>>
     /\ Head(elems[i].url) = "http://"}

ExpectedLink(input) ==
  LET html == input.htmlBody.given /\ input.elems # <<>>
  IN IF html /\ GoodAnchors(input.elems) # {}
     THEN Link(input.elems[SetMin(GoodAnchors(input.elems))].url)
     ELSE ScanOf(IF html THEN input.elems ELSE input.chunks,
                 <<"unsubscribe", "optout", "opt-out", "preferences">>)

\* C23: extractUnsubscribeLink prefers the HTML body: with an htmlBody the
\* result is the address of the first anchor whose link text has an
\* unsubscribe keyword and whose href starts with 'http'; otherwise it is
\* the first URL of the scanned text (the htmlBody when there is one, else
\* the plain body) that matches the patterns taken in the order
\* unsubscribe, optout, opt-out, preferences, without trailing ')', '>',
\* ']'; it is null exactly when neither scan matches. The row is written
\* with the result.
C23_LinkFromAnchorThenPatterns ==
  Returned("extractUnsubscribeLink") =>
    /\ enr.out = ExpectedLink(enr.input)
    /\ enr.pc = "created" => enr.row.unsubscribeLink = enr.out

\* an anchor is preferred to a matching URL that comes earlier in the text,
\* and to the link of the plain body
C23_Witness ==
  /\ enr.fn = "extractUnsubscribeLink"
  /\ enr.pc = "created"
  /\ Len(enr.input.chunks) = 1
  /\ Len(enr.input.elems) = 2
  /\ ~enr.input.elems[1].anchor
  /\ enr.input.elems[1].kws = {"unsubscribe"}
  /\ enr.input.elems[2].anchor
  /\ enr.out = Link(<<"http://", "h", "&", "optout">>)

====
